---- MODULE Spec2Model ----
(***************************************************************************)
(* Model of the txt -> XML conversion pipeline: the transliterating        *)
(* normalizer (transliteration.py), the bullet-list parser (parser.py),    *)
(* the XML builder (converter.py) and the per-file loop of                 *)
(* process_directory (main.py) with its database collaborator.             *)
(*                                                                         *)
(* A Python str is a sequence of characters.  An ASCII character is the    *)
(* one-character string itself; a non-ASCII character is named by its code *)
(* point, e.g. "U+0444" for the Cyrillic small letter ef.                  *)
(***************************************************************************)
EXTENDS Integers, Sequences, FiniteSets, TLC

VARIABLES
    pc,                   \* position of the running call
    text,                 \* normalize_parameter_name: argument
    normalized,           \* normalize_parameter_name(text)
    renormalized,         \* normalize_parameter_name(normalized)
    content,              \* parse_txt_file: the text read from the file
    parsed,               \* parse_txt_file: returned tuple or raised error
    document_name,        \* create_xml_document: first argument
    english_params,       \* create_xml_document: second argument
    xml_content,          \* create_xml_document: returned string or error
    translation_strategy, \* process_directory: argument
    splitting_strategy,   \* process_directory: argument
    use_db,               \* process_directory: a db_manager was passed
    output_xml,           \* process_directory: argument
    txt_files,            \* the texts of the .txt files find_txt_files found
    file_idx,             \* index in txt_files of the file being processed
    parameters,           \* the labels parse_txt_file returned for the file
    param_idx,            \* index in parameters of the label being translated
    processed,            \* counter of the files processed
    errors,               \* counter of the files that raised
    log,                  \* per file handled: "ok" or the error it raised
    db_parameters,        \* rows of the table parameters
    db_documents,         \* rows of the table documents
    xml_files,            \* the .xml files written, by index of their .txt
    w_name,               \* per worker: russian_name of its call
    w_pc                  \* per worker: position in get_or_create_parameter

normVars == <<text, normalized, renormalized>>
parseVars == <<content, parsed>>
xmlVars == <<document_name, english_params, xml_content>>
runVars == <<translation_strategy, splitting_strategy, use_db, output_xml,
             txt_files>>
loopVars == <<file_idx, parameters, param_idx, processed, errors, log>>
storeVars == <<db_parameters, db_documents, xml_files>>
workerVars == <<w_name, w_pc>>

vars == <<pc, normVars, parseVars, xmlVars, runVars, loopVars, storeVars,
          workerVars>>

(***************************************************************************)
(* Bounds of the checked input spaces.                                     *)
(***************************************************************************)
MaxLen == 3

(***************************************************************************)
(* Generic string helpers (Python str methods).                            *)
(***************************************************************************)
\* All sequences over S of length at most n.
StrUpTo(S, n) == UNION {[1..k -> S] : k \in 0..n}

RECURSIVE Flatten(_)
\* ''.join(parts)
Flatten(parts) ==
    IF parts = <<>> THEN <<>> ELSE Head(parts) \o Flatten(Tail(parts))

\* str.rstrip(chars): drop the whole trailing run of characters in cs.
RStrip(s, cs) ==
    LET keep == CHOOSE n \in 0..Len(s) :
                    /\ (n = 0 \/ s[n] \notin cs)
                    /\ \A i \in (n+1)..Len(s) : s[i] \in cs
    IN  SubSeq(s, 1, keep)

\* str.lstrip(chars): drop the whole leading run of characters in cs.
LStrip(s, cs) ==
    LET first == CHOOSE n \in 1..(Len(s)+1) :
                    /\ (n = Len(s) + 1 \/ s[n] \notin cs)
                    /\ \A i \in 1..(n-1) : s[i] \in cs
    IN  SubSeq(s, first, Len(s))

\* Characters str.strip() and the regex class \s treat as whitespace.
Whitespace == {" ", "\t", "\n"}

\* str.strip(chars)
StripChars(s, cs) == LStrip(RStrip(s, cs), cs)

\* str.strip()
Strip(s) == StripChars(s, Whitespace)

\* str.replace(old, new) for a one-character old and new.
ReplaceChar(s, old, new) == [i \in 1..Len(s) |-> IF s[i] = old THEN new ELSE s[i]]

(***************************************************************************)
(* transliteration.py                                                      *)
(***************************************************************************)
TRANSLIT_MAP ==
    ("U+0430" :> <<"a">>) @@ ("U+0431" :> <<"b">>) @@ ("U+0432" :> <<"v">>) @@
    ("U+0433" :> <<"g">>) @@ ("U+0434" :> <<"d">>) @@ ("U+0435" :> <<"e">>) @@
    ("U+0451" :> <<"y", "o">>) @@ ("U+0436" :> <<"z", "h">>) @@ ("U+0437" :> <<"z">>) @@
    ("U+0438" :> <<"i">>) @@ ("U+0439" :> <<"y">>) @@ ("U+043A" :> <<"k">>) @@
    ("U+043B" :> <<"l">>) @@ ("U+043C" :> <<"m">>) @@ ("U+043D" :> <<"n">>) @@
    ("U+043E" :> <<"o">>) @@ ("U+043F" :> <<"p">>) @@ ("U+0440" :> <<"r">>) @@
    ("U+0441" :> <<"s">>) @@ ("U+0442" :> <<"t">>) @@ ("U+0443" :> <<"u">>) @@
    ("U+0444" :> <<"f">>) @@ ("U+0445" :> <<"h">>) @@ ("U+0446" :> <<"t", "s">>) @@
    ("U+0447" :> <<"c", "h">>) @@ ("U+0448" :> <<"s", "h">>) @@ ("U+0449" :> <<"s", "c", "h">>) @@
    ("U+044A" :> <<>>) @@ ("U+044B" :> <<"y">>) @@ ("U+044C" :> <<>>) @@
    ("U+044D" :> <<"e">>) @@ ("U+044E" :> <<"y", "u">>) @@ ("U+044F" :> <<"y", "a">>) @@
    ("U+0410" :> <<"A">>) @@ ("U+0411" :> <<"B">>) @@ ("U+0412" :> <<"V">>) @@
    ("U+0413" :> <<"G">>) @@ ("U+0414" :> <<"D">>) @@ ("U+0415" :> <<"E">>) @@
    ("U+0401" :> <<"Y", "o">>) @@ ("U+0416" :> <<"Z", "h">>) @@ ("U+0417" :> <<"Z">>) @@
    ("U+0418" :> <<"I">>) @@ ("U+0419" :> <<"Y">>) @@ ("U+041A" :> <<"K">>) @@
    ("U+041B" :> <<"L">>) @@ ("U+041C" :> <<"M">>) @@ ("U+041D" :> <<"N">>) @@
    ("U+041E" :> <<"O">>) @@ ("U+041F" :> <<"P">>) @@ ("U+0420" :> <<"R">>) @@
    ("U+0421" :> <<"S">>) @@ ("U+0422" :> <<"T">>) @@ ("U+0423" :> <<"U">>) @@
    ("U+0424" :> <<"F">>) @@ ("U+0425" :> <<"H">>) @@ ("U+0426" :> <<"T", "s">>) @@
    ("U+0427" :> <<"C", "h">>) @@ ("U+0428" :> <<"S", "h">>) @@ ("U+0429" :> <<"S", "c", "h">>) @@
    ("U+042A" :> <<>>) @@ ("U+042B" :> <<"Y">>) @@ ("U+042C" :> <<>>) @@
    ("U+042D" :> <<"E">>) @@ ("U+042E" :> <<"Y", "u">>) @@ ("U+042F" :> <<"Y", "a">>)

AsciiLower == {"a","b","c","d","e","f","g","h","i","j","k","l","m",
               "n","o","p","q","r","s","t","u","v","w","x","y","z"}
AsciiUpper == {"A","B","C","D","E","F","G","H","I","J","K","L","M",
               "N","O","P","Q","R","S","T","U","V","W","X","Y","Z"}
AsciiDigit == {"0","1","2","3","4","5","6","7","8","9"}

\* str.lower() of one ASCII capital.
AsciiToLower ==
    ("A" :> "a") @@ ("B" :> "b") @@ ("C" :> "c") @@ ("D" :> "d") @@
    ("E" :> "e") @@ ("F" :> "f") @@ ("G" :> "g") @@ ("H" :> "h") @@
    ("I" :> "i") @@ ("J" :> "j") @@ ("K" :> "k") @@ ("L" :> "l") @@
    ("M" :> "m") @@ ("N" :> "n") @@ ("O" :> "o") @@ ("P" :> "p") @@
    ("Q" :> "q") @@ ("R" :> "r") @@ ("S" :> "s") @@ ("T" :> "t") @@
    ("U" :> "u") @@ ("V" :> "v") @@ ("W" :> "w") @@ ("X" :> "x") @@
    ("Y" :> "y") @@ ("Z" :> "z")

\* Non-ASCII characters outside TRANSLIT_MAP for which str.isalnum() is true:
\* e-acute, E-acute, capital I with dot above.  U+0307 (combining dot above)
\* is a mark: isalnum() is false for it.
OtherAlnum == {"U+00E9", "U+00C9", "U+0130"}

\* char.isalnum()
IsAlnum(c) ==
    c \in AsciiLower \cup AsciiUpper \cup AsciiDigit \cup OtherAlnum
          \cup DOMAIN TRANSLIT_MAP

\* One iteration of the loop of transliterate: what is appended for char.
TranslitChar(char) ==
    IF char \in DOMAIN TRANSLIT_MAP THEN TRANSLIT_MAP[char]
    ELSE IF IsAlnum(char) \/ char \in {"_", "-", " "} THEN <<char>>
    ELSE <<"_">>

transliterate(t) == Flatten([i \in 1..Len(t) |-> TranslitChar(t[i])])

\* str.lower() of one character.  Unicode lower-cases U+0130 to the two
\* characters "i" U+0307; TRANSLIT_MAP only emits ASCII.
LowerChar(c) ==
    IF c \in AsciiUpper THEN <<AsciiToLower[c]>>
    ELSE IF c = "U+00C9" THEN <<"U+00E9">>
    ELSE IF c = "U+0130" THEN <<"i", "U+0307">>
    ELSE <<c>>

\* str.lower()
Lower(s) == Flatten([i \in 1..Len(s) |-> LowerChar(s[i])])

\* '__' in s
HasDoubleUnderscore(s) ==
    \E i \in 1..(Len(s)-1) : s[i] = "_" /\ s[i+1] = "_"

RECURSIVE ReplaceDoubleUnderscore(_)
\* s.replace('__', '_'): non-overlapping occurrences, left to right.
ReplaceDoubleUnderscore(s) ==
    IF Len(s) < 2 THEN s
    ELSE IF s[1] = "_" /\ s[2] = "_"
         THEN <<"_">> \o ReplaceDoubleUnderscore(SubSeq(s, 3, Len(s)))
         ELSE <<s[1]>> \o ReplaceDoubleUnderscore(Tail(s))

RECURSIVE CollapseUnderscores(_)
\* while '__' in s: s = s.replace('__', '_')
CollapseUnderscores(s) ==
    IF HasDoubleUnderscore(s)
    THEN CollapseUnderscores(ReplaceDoubleUnderscore(s))
    ELSE s

\* The punctuation set of text.rstrip(';.,!?').
TrailingPunctuation == {";", ".", ",", "!", "?"}

\* Mutant of normalize_parameter_name: the lower-casing step is missing.
normalize_parameter_name_nolower(t) ==
    LET stripped == RStrip(t, TrailingPunctuation)
        translit == transliterate(Strip(stripped))
        replaced == ReplaceChar(ReplaceChar(translit, " ", "_"), "-", "_")
    IN  StripChars(CollapseUnderscores(replaced), {"_"})

normalize_parameter_name(t) ==
    LET stripped == RStrip(t, TrailingPunctuation)
        translit == transliterate(Strip(stripped))
        lowered  == Lower(translit)
        replaced == ReplaceChar(ReplaceChar(lowered, " ", "_"), "-", "_")
    IN  StripChars(CollapseUnderscores(replaced), {"_"})

(***************************************************************************)
(* parser.py                                                               *)
(***************************************************************************)
\* The bullet markers of the class [-•] ("U+2022" is the bullet).
Marker == {"-", "U+2022"}

\* The class [;.]
Terminator == {";", "."}

RECURSIVE Split(_, _)
\* str.split(sep) for a one-character separator.
Split(s, sep) ==
    IF \A i \in 1..Len(s) : s[i] # sep THEN <<s>>
    ELSE LET at == CHOOSE i \in 1..Len(s) :
                       s[i] = sep /\ \A j \in 1..(i-1) : s[j] # sep
         IN  <<SubSeq(s, 1, at - 1)>> \o Split(SubSeq(s, at + 1, Len(s)), sep)

\* Length of the longest run of whitespace of s that starts at index from.
WhitespaceRun(s, from) ==
    CHOOSE n \in 0..(Len(s) + 1 - from) :
        /\ \A i \in from..(from + n - 1) : s[i] \in Whitespace
        /\ (from + n > Len(s) \/ s[from + n] \notin Whitespace)

\* re.match(r'^[-•]\s+', line)
MatchesBulletPrefix(line) ==
    Len(line) >= 2 /\ line[1] \in Marker /\ line[2] \in Whitespace

\* re.sub(r'^[-•]\s+', '', line) for a line that matches the prefix.
RemoveBulletPrefix(line) ==
    SubSeq(line, 2 + WhitespaceRun(line, 2), Len(line))

\* re.sub(r'[;.]\s*$', '', param): the leftmost terminator that only
\* whitespace follows is removed together with that whitespace.
RemoveTrailingTerminator(param) ==
    LET hits == {i \in 1..Len(param) :
                    /\ param[i] \in Terminator
                    /\ \A j \in (i+1)..Len(param) : param[j] \in Whitespace}
    IN  IF hits = {} THEN param
        ELSE SubSeq(param, 1, (CHOOSE i \in hits : \A j \in hits : i <= j) - 1)

\* '^' under re.MULTILINE: at the start of the text or right after a newline.
AtLineStart(s, p) == p = 1 \/ s[p - 1] = "\n"

\* '$' under re.MULTILINE: at the end of the text or right before a newline.
AtLineEnd(s, p) == p = Len(s) + 1 \/ s[p] = "\n"

\* Whether ^[-•]\s+(.+?)(?:[;.]\s*)?$ matches at p when \s+ takes k
\* characters and the lazy group (.+?) takes j characters; '.' matches
\* every character but the newline.
GroupEnds(s, p, k, j) ==
    LET c == p + 1 + k + j      \* first index after the captured group
    IN  /\ c <= Len(s) + 1
        /\ \A i \in (p + 1 + k)..(c - 1) : s[i] # "\n"
        /\ \/ AtLineEnd(s, c)
           \/ /\ c <= Len(s)
              /\ s[c] \in Terminator
              /\ \E w \in 0..WhitespaceRun(s, c + 1) : AtLineEnd(s, c + 1 + w)

\* The match of param_pattern that starts at p, in the order the
\* backtracking matcher tries: \s+ greedy, (.+?) lazy, the optional
\* terminator group first present with \s* greedy, then absent.
MatchAt(s, p) ==
    LET m  == WhitespaceRun(s, p + 1)
        ks == {k \in 1..m : \E j \in 1..Len(s) : GroupEnds(s, p, k, j)}
    IN  IF ~ (p <= Len(s) /\ AtLineStart(s, p) /\ s[p] \in Marker) \/ ks = {}
        THEN [found |-> FALSE]
        ELSE LET k == CHOOSE x \in ks : \A y \in ks : y <= x
                 js == {j \in 1..Len(s) : GroupEnds(s, p, k, j)}
                 j == CHOOSE x \in js : \A y \in js : x <= y
                 c == p + 1 + k + j
                 ws == IF c <= Len(s) /\ s[c] \in Terminator
                       THEN {w \in 0..WhitespaceRun(s, c + 1) :
                                 AtLineEnd(s, c + 1 + w)}
                       ELSE {}
                 end == IF ws = {} THEN c
                        ELSE c + 1 + (CHOOSE x \in ws : \A y \in ws : y <= x)
             IN  [found |-> TRUE,
                  group |-> SubSeq(s, p + 1 + k, c - 1),
                  end   |-> end]

RECURSIVE FindAll(_, _)
\* param_pattern.findall(content): the captured groups of the
\* non-overlapping matches, scanning from index from.
FindAll(s, from) ==
    IF from > Len(s) THEN <<>>
    ELSE LET m == MatchAt(s, from)
         IN  IF m.found THEN <<m.group>> \o FindAll(s, m.end)
             ELSE FindAll(s, from + 1)

\* The loop over matches: trim, drop a trailing terminator, keep if not empty.
RECURSIVE ParamsOfMatches(_)
ParamsOfMatches(matches) ==
    IF matches = <<>> THEN <<>>
    ELSE LET param == Strip(RemoveTrailingTerminator(Strip(Head(matches))))
         IN  (IF param # <<>> THEN <<param>> ELSE <<>>)
                 \o ParamsOfMatches(Tail(matches))

\* The fallback loop over lines[1:].
RECURSIVE ParamsOfLines(_)
ParamsOfLines(ls) ==
    IF ls = <<>> THEN <<>>
    ELSE LET line  == Strip(Head(ls))
             param == Strip(RemoveTrailingTerminator(RemoveBulletPrefix(line)))
         IN  (IF MatchesBulletPrefix(line) /\ param # <<>>
              THEN <<param>> ELSE <<>>)
                 \o ParamsOfLines(Tail(ls))

\* The title loop: the lines that qualify as the document name.
IsTitleLine(line) == Strip(line) # <<>> /\ ~ MatchesBulletPrefix(Strip(line))

parse_txt_file(c) ==
    LET lines  == Split(c, "\n")
        titles == {i \in 1..Len(lines) : IsTitleLine(lines[i])}
        first  == CHOOSE i \in titles : \A j \in titles : i <= j
        byRegex == ParamsOfMatches(FindAll(c, 1))
    IN  IF Strip(c) = <<>> THEN [status |-> "error", error |-> "empty"]
        ELSE IF titles = {} THEN [status |-> "error", error |-> "no_title"]
        ELSE [status |-> "ok",
              document_name |-> Strip(lines[first]),
              parameters |-> IF byRegex # <<>> THEN byRegex
                             ELSE ParamsOfLines(Tail(lines))]

(***************************************************************************)
(* converter.py                                                            *)
(***************************************************************************)
\* The root tag, Element('document').
RootTag == <<"d", "o", "c", "u", "m", "e", "n", "t">>

\* indent="    "
Indent == <<" ", " ", " ", " ">>

\* The first line toprettyxml writes: <?xml version="1.0" ?>
XmlDeclaration ==
    <<"<", "?", "x", "m", "l", " ", "v", "e", "r", "s", "i", "o", "n", "=",
      "\"", "1", ".", "0", "\"", " ", "?", ">">>

\* xml.etree.ElementTree.tostring(root, encoding='unicode'): an element
\* without text and children is written "<tag />", the tag is not checked.
ElementTreeToString(params) ==
    IF params = <<>> THEN <<"<">> \o RootTag \o <<" ", "/", ">">>
    ELSE <<"<">> \o RootTag \o <<">">>
         \o Flatten([i \in 1..Len(params) |->
                        <<"<">> \o params[i] \o <<" ", "/", ">">>])
         \o <<"<", "/">> \o RootTag \o <<">">>

\* Characters that may start an XML name, and that may continue one.
\* U+00E9 is a letter, U+0307 a combining mark.
XmlNameStartChar == AsciiLower \cup AsciiUpper \cup {"_", ":", "U+00E9", "U+00C9", "U+0130"}
XmlNameChar == XmlNameStartChar \cup AsciiDigit \cup {"-", ".", "U+0307"}

\* Whether expat accepts "<tag />" as an empty-element tag.
IsXmlName(tag) ==
    /\ Len(tag) > 0
    /\ tag[1] \in XmlNameStartChar
    /\ \A i \in 1..Len(tag) : tag[i] \in XmlNameChar

\* reparsed.toprettyxml(indent="    "): the declaration, then every element
\* on its own line, an element without children as "<tag/>".
ToPrettyXml(params) ==
    XmlDeclaration \o <<"\n">>
    \o (IF params = <<>> THEN <<"<">> \o RootTag \o <<"/", ">", "\n">>
        ELSE <<"<">> \o RootTag \o <<">", "\n">>
             \o Flatten([i \in 1..Len(params) |->
                    Indent \o <<"<">> \o params[i] \o <<"/", ">", "\n">>])
             \o <<"<", "/">> \o RootTag \o <<">", "\n">>)

RECURSIVE Join(_, _)
\* sep.join(parts)
Join(parts, sep) ==
    IF parts = <<>> THEN <<>>
    ELSE IF Len(parts) = 1 THEN parts[1]
    ELSE parts[1] \o sep \o Join(Tail(parts), sep)

\* s.startswith(prefix)
StartsWith(s, prefix) ==
    Len(s) >= Len(prefix) /\ SubSeq(s, 1, Len(prefix)) = prefix

\* Length of the longest run of characters of cs in s that starts at from.
RunOf(s, from, cs) ==
    CHOOSE n \in 0..(Len(s) + 1 - from) :
        /\ \A i \in from..(from + n - 1) : s[i] \in cs
        /\ (from + n > Len(s) \/ s[from + n] \notin cs)

RECURSIVE ExpandSelfClosing(_, _)
\* re.sub(r'<([a-zA-Z_][a-zA-Z0-9_-]*)\s*/>', r'<\1></\1>', s) from index
\* from on.  The classes of the name, of \s and "/" are disjoint, so only
\* the longest name and the longest whitespace run can match.
ExpandSelfClosing(s, from) ==
    IF from > Len(s) THEN <<>>
    ELSE LET n == IF from + 1 <= Len(s)
                     /\ s[from + 1] \in AsciiLower \cup AsciiUpper \cup {"_"}
                  THEN 1 + RunOf(s, from + 2,
                          AsciiLower \cup AsciiUpper \cup AsciiDigit \cup {"_", "-"})
                  ELSE 0
             w == RunOf(s, from + 1 + n, Whitespace)
             e == from + 1 + n + w       \* where "/>" has to be
             name == SubSeq(s, from + 1, from + n)
         IN  IF s[from] = "<" /\ n > 0 /\ e + 1 <= Len(s)
                /\ s[e] = "/" /\ s[e + 1] = ">"
             THEN <<"<">> \o name \o <<">", "<", "/">> \o name \o <<">">>
                  \o ExpandSelfClosing(s, e + 2)
             ELSE <<s[from]>> \o ExpandSelfClosing(s, from + 1)

\* Mutant of create_xml_document: children are indented by two spaces.
create_xml_document_indent2(name, params) ==
    IF \E i \in 1..Len(params) : ~ IsXmlName(params[i])
    THEN [status |-> "error", error |-> "ExpatError"]
    ELSE LET pretty == XmlDeclaration \o <<"\n">> \o
                 (IF params = <<>> THEN <<"<">> \o RootTag \o <<"/", ">", "\n">>
                  ELSE <<"<">> \o RootTag \o <<">", "\n">>
                       \o Flatten([i \in 1..Len(params) |->
                              <<" ", " ", "<">> \o params[i] \o <<"/", ">", "\n">>])
                       \o <<"<", "/">> \o RootTag \o <<">", "\n">>)
             lines  == Split(pretty, "\n")
             kept   == IF StartsWith(lines[1], <<"<", "?", "x", "m", "l">>)
                       THEN Tail(lines) ELSE lines
         IN  [status |-> "ok",
              xml |-> ExpandSelfClosing(Strip(Join(kept, <<"\n">>)), 1)]

\* create_xml_document(document_name, params): the returned string, or
\* the ExpatError minidom.parseString raises on the ElementTree output.
create_xml_document(name, params) ==
    IF \E i \in 1..Len(params) : ~ IsXmlName(params[i])
    THEN [status |-> "error", error |-> "ExpatError"]
    ELSE LET pretty == ToPrettyXml(params)
             lines  == Split(pretty, "\n")
             kept   == IF StartsWith(lines[1], <<"<", "?", "x", "m", "l">>)
                       THEN Tail(lines) ELSE lines
         IN  [status |-> "ok",
              xml |-> ExpandSelfClosing(Strip(Join(kept, <<"\n">>)), 1)]

(***************************************************************************)
(* transliteration.py: strategy dispatch                                   *)
(***************************************************************************)
\* translate_with_strategy(text, strategy): the translated name, or the
\* ValueError for an unknown strategy.
translate_with_strategy(t, strategy) ==
    IF strategy = "translit"
    THEN [status |-> "ok", value |-> normalize_parameter_name(t)]
    ELSE IF strategy = "llm"
    THEN [status |-> "ok", value |-> normalize_parameter_name(t)]
    ELSE [status |-> "error", error |-> "UnknownTranslationStrategy"]

\* split_parameter_with_strategy(text, strategy): the list of sub-labels,
\* or the ValueError for an unknown strategy.
split_parameter_with_strategy(t, strategy) ==
    IF strategy = "none" THEN [status |-> "ok", value |-> <<t>>]
    ELSE IF strategy = "llm" THEN [status |-> "ok", value |-> <<t>>]
    ELSE [status |-> "error", error |-> "UnknownSplittingStrategy"]

(***************************************************************************)
(* database.py                                                             *)
(***************************************************************************)
\* "func.lower(Parameter.russian_name) == func.lower(russian_name)"
MatchesIgnoringCase(rows, russian_name) ==
    \E i \in 1..Len(rows) : Lower(rows[i].russian_name) = Lower(russian_name)

\* Mutant of get_or_create_parameter: the new row is added to the session
\* but never committed.
get_or_create_parameter_nocommit(rows, russian_name, english_name) == rows

\* DatabaseManager.get_or_create_parameter on the rows one session sees:
\* the row whose russian_name equals the name ignoring case is returned,
\* else a new row is added and committed.
get_or_create_parameter(rows, russian_name, english_name) ==
    IF \E i \in 1..Len(rows) : Lower(rows[i].russian_name) = Lower(russian_name)
    THEN rows
    ELSE Append(rows, [russian_name |-> russian_name,
                       english_name |-> english_name])

\* DatabaseManager.save_document: a new row is added and committed.
save_document(rows, original_filename, name, xml) ==
    Append(rows, [original_filename |-> original_filename,
                  document_name |-> name,
                  xml_content |-> xml])

(***************************************************************************)
(* main.py: process_directory                                              *)
(***************************************************************************)
RECURSIVE TranslateSubParams(_, _, _, _, _, _)
\* The loop "for sub_param in split_params": every sub-label is translated,
\* recorded in the database when there is one, and appended to the tags.
\* The loop stops at the first error; rows committed before it remain.
\* dbRaises says whether the database raises in get_or_create_parameter
\* (a lost connection, a failed commit) during this iteration.
TranslateSubParams(subs, strategy, withDb, dbRaises, rows, out) ==
    IF subs = <<>> THEN [status |-> "ok", rows |-> rows, out |-> out]
    ELSE LET tr == translate_with_strategy(Head(subs), strategy)
         IN  IF tr.status = "error"
             THEN [status |-> "error", error |-> tr.error, rows |-> rows, out |-> out]
             ELSE IF withDb /\ dbRaises
             THEN [status |-> "error", error |-> "DatabaseError",
                   rows |-> rows, out |-> out]
             ELSE TranslateSubParams(Tail(subs), strategy, withDb, dbRaises,
                      IF withDb
                      THEN get_or_create_parameter(rows, Head(subs), tr.value)
                      ELSE rows,
                      Append(out, tr.value))

(***************************************************************************)
(* Values of the variables a specification does not use.                   *)
(***************************************************************************)
NoValue == <<"none">>

NormIdle == text = <<>> /\ normalized = NoValue /\ renormalized = NoValue
ParseIdle == content = <<>> /\ parsed = NoValue
XmlIdle == document_name = <<>> /\ english_params = <<>> /\ xml_content = NoValue
WorkerIdle == w_name = <<>> /\ w_pc = <<>>
RunIdle ==
    /\ translation_strategy = "translit" /\ splitting_strategy = "none"
    /\ use_db = FALSE /\ output_xml = FALSE /\ txt_files = <<>>
    /\ file_idx = 0 /\ parameters = <<>> /\ param_idx = 0
    /\ processed = 0 /\ errors = 0 /\ log = <<>>
    /\ db_parameters = <<>> /\ db_documents = <<>> /\ xml_files = {}

(***************************************************************************)
(* NormSpec: normalize_parameter_name applied to every label over          *)
(* NormChars of length at most MaxLen, and applied again to its result.    *)
(***************************************************************************)
\* One or two representatives of every class of character that
\* normalize_parameter_name treats differently.
NormChars == {"a", "A", "1", "_", "-", " ", ";", "#",
              "U+0444",    \* Cyrillic small ef: one Latin letter
              "U+0429",    \* Cyrillic capital shcha: "Sch"
              "U+044C",    \* Cyrillic soft sign: dropped
              "U+00C9",    \* E-acute: alphanumeric, not in the table
              "U+0130"}    \* capital I with dot above

NormInit ==
    /\ pc = "normalize"
    /\ text \in StrUpTo(NormChars, MaxLen)
    /\ normalized = NoValue
    /\ renormalized = NoValue
    /\ ParseIdle /\ XmlIdle /\ RunIdle /\ WorkerIdle

\* normalize_parameter_name(text)
Normalize ==
    /\ pc = "normalize"
    /\ normalized' = normalize_parameter_name(text)
    /\ pc' = "renormalize"
    /\ UNCHANGED <<text, renormalized, parseVars, workerVars, xmlVars,
                   runVars, loopVars, storeVars>>

\* normalize_parameter_name(normalize_parameter_name(text))
Renormalize ==
    /\ pc = "renormalize"
    /\ renormalized' = normalize_parameter_name(normalized)
    /\ pc' = "normalized"
    /\ UNCHANGED <<text, normalized, parseVars, workerVars, xmlVars,
                   runVars, loopVars, storeVars>>

NormNext == Normalize \/ Renormalize

NormSpec == NormInit /\ [][NormNext]_vars

\* The identifier grammar [A-Za-z_][A-Za-z0-9_-]*
IsIdentifier(s) ==
    /\ Len(s) > 0
    /\ s[1] \in AsciiLower \cup AsciiUpper \cup {"_"}
    /\ \A i \in 1..Len(s) :
           s[i] \in AsciiLower \cup AsciiUpper \cup AsciiDigit \cup {"_", "-"}

\* C1: every value returned by normalize_parameter_name matches the
\* identifier grammar [A-Za-z_][A-Za-z0-9_-]* (ASCII, non-empty, no leading
\* digit).
C1_NormalizedIsIdentifier ==
    pc \in {"renormalize", "normalized"} => IsIdentifier(normalized)

\* C2: normalize_parameter_name is idempotent: normalizing a normalized
\* name returns it unchanged.
C2_NormalizeIdempotent ==
    pc = "normalized" => renormalized = normalized

MaxContentLen == 8

ParseChars == {"-", " ", "\n", "a", ";"}

ParseInit ==
    /\ pc = "parse"
    /\ content \in StrUpTo(ParseChars, MaxContentLen)
    /\ parsed = NoValue
    /\ NormIdle /\ XmlIdle /\ RunIdle /\ WorkerIdle

\* parse_txt_file(file_path) on a file holding content
Parse ==
    /\ pc = "parse"
    /\ parsed' = parse_txt_file(content)
    /\ pc' = "parsed"
    /\ UNCHANGED <<content, normVars, workerVars, xmlVars, runVars, loopVars,
                   storeVars>>

ParseNext == Parse

ParseSpec == ParseInit /\ [][ParseNext]_vars

\* A bullet line: after its indentation the line begins with a marker
\* followed by whitespace.
IsBulletLine(line) == MatchesBulletPrefix(LStrip(line, Whitespace))

\* The text of a bullet line after its marker.
AfterMarker(line) ==
    LET t == LStrip(line, Whitespace) IN SubSeq(t, 2, Len(t))

\* The label of a bullet line: the text after the marker without the
\* surrounding whitespace and without the trailing run of terminators.
LabelOf(line) == Strip(RStrip(AfterMarker(line), Terminator \cup Whitespace))

HasLabel(line) == IsBulletLine(line) /\ LabelOf(line) # <<>>

\* p occurs in s as a contiguous piece.
IsInfix(p, s) ==
    \E i \in 0..(Len(s) - Len(p)) : SubSeq(s, i + 1, i + Len(p)) = p

Returned == pc = "parsed" /\ parsed.status = "ok"

\* Every returned parameter is text of a bullet line of the file, taken from
\* after its marker.
FromBulletLines ==
    \A i \in 1..Len(parsed.parameters) :
        \E k \in 1..Len(Split(content, "\n")) :
            /\ IsBulletLine(Split(content, "\n")[k])
            /\ IsInfix(parsed.parameters[i], AfterMarker(Split(content, "\n")[k]))

\* No returned parameter ends with a terminator.
NoTrailingTerminator ==
    \A i \in 1..Len(parsed.parameters) :
        parsed.parameters[i][Len(parsed.parameters[i])] \notin Terminator

\* C4: the parameter parse_txt_file extracts from a bullet line never ends
\* with ';' or '.', whatever the length of the trailing run of the line.
C4_NoTrailingTerminator ==
    (Returned /\ FromBulletLines) => NoTrailingTerminator

\* C5: every parameter parse_txt_file returns is text of a line that itself
\* begins with a marker followed by whitespace; other lines give none, also
\* after a bare marker.
C5_ParamsOnlyFromBulletLines ==
    Returned => FromBulletLines

\* C6: the title is the first line that is neither blank nor a bullet line,
\* and the no-title error is raised exactly when a non-blank text has no
\* such line.
C6_TitleIsFirstPlainLine ==
    (pc = "parsed" /\ Strip(content) # <<>>) =>
        LET lines  == Split(content, "\n")
            plain  == {i \in 1..Len(lines) :
                          Strip(lines[i]) # <<>> /\ ~ IsBulletLine(lines[i])}
        IN  IF plain = {}
            THEN parsed = [status |-> "error", error |-> "no_title"]
            ELSE /\ parsed.status = "ok"
                 /\ parsed.document_name =
                        Strip(lines[CHOOSE i \in plain : \A j \in plain : i <= j])

\* C7: the parameter list has exactly one entry for every bullet line with
\* a non-empty label, in the order of the lines, repeated labels kept,
\* wherever the bullet lines are and however they are indented.
C7_OneParamPerBulletLine ==
    (Returned /\ FromBulletLines /\ NoTrailingTerminator) =>
        LET labelled == SelectSeq(Split(content, "\n"), HasLabel)
        IN  parsed.parameters = [i \in 1..Len(labelled) |-> LabelOf(labelled[i])]

(***************************************************************************)
(* XmlSpec: create_xml_document applied to every list of at most MaxTags   *)
(* tags over TagChars of length at most MaxTagLen.                         *)
(***************************************************************************)
MaxTags == 2
MaxTagLen == 2

\* One character of every class the builder tells apart: a letter (the
\* underscore is in the same class in every pattern), a digit, the hyphen,
\* and e-acute, which the normalizer passes through.
TagChars == {"a", "1", "-", "U+00E9"}

XmlInit ==
    /\ pc = "build"
    /\ document_name \in {<<>>, <<"D">>}
    /\ english_params \in StrUpTo(StrUpTo(TagChars, MaxTagLen), MaxTags)
    /\ xml_content = NoValue
    /\ NormIdle /\ ParseIdle /\ RunIdle /\ WorkerIdle

\* create_xml_document(document_name, english_params)
CreateXml ==
    /\ pc = "build"
    /\ xml_content' = create_xml_document(document_name, english_params)
    /\ pc' = "built"
    /\ UNCHANGED <<document_name, english_params, normVars, parseVars,
                   workerVars, runVars, loopVars, storeVars>>

XmlNext == CreateXml

XmlSpec == XmlInit /\ [][XmlNext]_vars

\* The document the output shape prescribes for a list of tags.
ExpectedXml(tagList) ==
    Join(<<(<<"<">> \o RootTag \o <<">">>)>>
         \o [i \in 1..Len(tagList) |->
                <<" ", " ", " ", " ", "<">> \o tagList[i] \o <<">", "<", "/">>
                    \o tagList[i] \o <<">">>]
         \o <<(<<"<", "/">> \o RootTag \o <<">">>)>>,
         <<"\n">>)

AllIdentifiers(tagList) == \A i \in 1..Len(tagList) : IsIdentifier(tagList[i])

\* C8 as stated: for every list of identifiers, the empty one included, the
\* result is the line <document>, one indented <tag></tag> line per tag in
\* input order, and the line </document>.
C8_ExactShapeEveryList ==
    (pc = "built" /\ AllIdentifiers(english_params)) =>
        xml_content = [status |-> "ok", xml |-> ExpectedXml(english_params)]

\* C8 as amended: for every non-empty list of identifiers the result is
\* the line <document>, one line of four spaces and <tag></tag> per tag in
\* input order with duplicates kept, and the line </document>, whatever
\* document_name is; for the empty list it is the single line
\* <document></document>.
C8_ExactShape ==
    (pc = "built" /\ AllIdentifiers(english_params)) =>
        IF english_params # <<>>
        THEN xml_content = [status |-> "ok", xml |-> ExpectedXml(english_params)]
        ELSE xml_content =
                 [status |-> "ok",
                  xml |-> <<"<">> \o RootTag \o <<">", "<", "/">> \o RootTag \o <<">">>]

\* C8 witness: a document name is given and a repeated tag was built twice.
C8_Witness ==
    /\ pc = "built"
    /\ document_name = <<"D">>
    /\ english_params = << <<"a">>, <<"a">> >>
    /\ xml_content.status = "ok"

\* The tags normalize_parameter_name returns for the labels over NormChars
\* of length at most two.
NormalizerTags == {normalize_parameter_name(t) : t \in StrUpTo(NormChars, 2)}

\* C9: no XML string create_xml_document returns has a self-closing
\* element, for the empty list and for tags the normalizer can produce.
C9_NoSelfClosing ==
    (/\ pc = "built"
     /\ xml_content.status = "ok"
     /\ \A i \in 1..Len(english_params) : english_params[i] \in NormalizerTags) =>
        ~ IsInfix(<<"/", ">">>, xml_content.xml)

(***************************************************************************)
(* Spec: process_directory over at most MaxFiles files, each a title with  *)
(* at most MaxParams bullet lines, a blank file or a file without title.   *)
(***************************************************************************)
MaxFiles == 2
MaxParams == 1

\* Labels of the bullet lines: two that are equal ignoring case and one
\* whose tag starts with a digit.
Labels == {<<"a">>, <<"A">>, <<"1">>}

\* The text of a file with title "T" and one bullet line per label.
FileText(labels) ==
    <<"T">> \o Flatten([i \in 1..Len(labels) |->
                           <<"\n", "-", " ">> \o labels[i] \o <<";">>])

FileTexts ==
    {FileText(ls) : ls \in StrUpTo(Labels, MaxParams)}
        \cup {<<>>, <<"-", " ", "a">>}

TranslationStrategies == {"translit", "llm", "foo"}
SplittingStrategies == {"none", "llm", "foo"}

\* The pairs of strategy names process_directory is run with: every branch
\* of both dispatchers is taken by one of them.
StrategyPairs ==
    {p \in TranslationStrategies \X SplittingStrategies :
        p \in {<<"translit", "none">>, <<"llm", "llm">>,
               <<"foo", "none">>, <<"translit", "foo">>}}

Init ==
    /\ pc = "start"
    /\ \E p \in StrategyPairs :
           translation_strategy = p[1] /\ splitting_strategy = p[2]
    /\ use_db \in BOOLEAN
    /\ output_xml \in BOOLEAN
    /\ txt_files \in StrUpTo(FileTexts, MaxFiles)
    /\ file_idx = 0 /\ parameters = <<>> /\ param_idx = 0
    /\ processed = 0 /\ errors = 0 /\ log = <<>>
    /\ db_parameters = <<>> /\ db_documents = <<>> /\ xml_files = {}
    /\ NormIdle /\ ParseIdle /\ XmlIdle /\ WorkerIdle

\* "if not txt_files: ... return"
NoFiles ==
    /\ pc = "start"
    /\ txt_files = <<>>
    /\ pc' = "returned"
    /\ UNCHANGED <<normVars, parseVars, workerVars, xmlVars, runVars, loopVars,
                   storeVars>>

\* processed = 0; errors = 0; the loop starts with the first file.
StartLoop ==
    /\ pc = "start"
    /\ txt_files # <<>>
    /\ pc' = "parse_file"
    /\ file_idx' = 1
    /\ processed' = 0
    /\ errors' = 0
    /\ UNCHANGED <<parameters, param_idx, log,
                   normVars, parseVars, workerVars, xmlVars, runVars,
                   storeVars>>

\* Mutant of Except: the first error ends the loop.
Except_abort(error) ==
    /\ errors' = errors + 1
    /\ log' = Append(log, error)
    /\ file_idx' = Len(txt_files) + 1
    /\ pc' = "parse_file"
    /\ UNCHANGED processed

\* The except clause of the loop body: the file is counted as an error and
\* the loop goes on with the next file.
Except(error) ==
    /\ errors' = errors + 1
    /\ log' = Append(log, error)
    /\ file_idx' = file_idx + 1
    /\ pc' = "parse_file"
    /\ UNCHANGED processed

\* document_name, parameters = parse_txt_file(txt_file)
ParseFile ==
    /\ pc = "parse_file"
    /\ file_idx <= Len(txt_files)
    /\ LET r == parse_txt_file(txt_files[file_idx])
       IN  IF r.status = "ok"
           THEN /\ document_name' = r.document_name
                /\ parameters' = r.parameters
                /\ param_idx' = 1
                /\ english_params' = <<>>
                /\ pc' = "translate"
                /\ UNCHANGED <<file_idx, processed, errors, log>>
           ELSE /\ Except(r.error)
                /\ UNCHANGED <<document_name, parameters, param_idx,
                               english_params>>
    /\ UNCHANGED <<xml_content, normVars, parseVars, workerVars, runVars,
                   storeVars>>

\* The outcomes the environment allows for an operation on a resource that
\* is in use: it may raise or not.  An unused resource never raises.
MayRaise(inUse) == IF inUse THEN BOOLEAN ELSE {FALSE}

\* One iteration of "for param in parameters": split, translate, record.
TranslateParam ==
    /\ pc = "translate"
    /\ param_idx <= Len(parameters)
    /\ \E dbRaises \in MayRaise(use_db) :
       LET split == split_parameter_with_strategy(parameters[param_idx],
                                                  splitting_strategy)
           done  == TranslateSubParams(split.value, translation_strategy,
                                       use_db, dbRaises, db_parameters,
                                       english_params)
       IN  IF split.status = "error"
           THEN /\ Except(split.error)
                /\ UNCHANGED <<param_idx, english_params, db_parameters>>
           ELSE /\ db_parameters' = done.rows
                /\ english_params' = done.out
                /\ IF done.status = "error"
                   THEN Except(done.error) /\ UNCHANGED param_idx
                   ELSE /\ param_idx' = param_idx + 1
                        /\ UNCHANGED <<pc, file_idx, processed, errors, log>>
    /\ UNCHANGED <<document_name, xml_content, parameters, db_documents,
                   xml_files, normVars, parseVars, workerVars, runVars>>

\* xml_content = create_xml_document(document_name, english_params)
CreateXmlDocument ==
    /\ pc = "translate"
    /\ param_idx > Len(parameters)
    /\ LET r == create_xml_document(document_name, english_params)
       IN  /\ xml_content' = r
           /\ IF r.status = "ok"
              THEN /\ pc' = "save_document"
                   /\ UNCHANGED <<file_idx, processed, errors, log>>
              ELSE Except(r.error)
    /\ UNCHANGED <<document_name, english_params, parameters, param_idx,
                   normVars, parseVars, workerVars, runVars, storeVars>>

\* "if db_manager and session: db_manager.save_document(...)"
\* The commit may raise; the row is then not stored and the file is counted
\* as an error.
SaveDocument ==
    /\ pc = "save_document"
    /\ \E dbRaises \in MayRaise(use_db) :
           IF dbRaises
           THEN /\ Except("DatabaseError")
                /\ UNCHANGED <<db_documents, parameters, param_idx>>
           ELSE /\ db_documents' =
                       IF use_db
                       THEN save_document(db_documents, file_idx, document_name,
                                          xml_content.xml)
                       ELSE db_documents
                /\ pc' = "save_xml"
                /\ UNCHANGED loopVars
    /\ UNCHANGED <<db_parameters, xml_files, normVars, parseVars, workerVars,
                   xmlVars, runVars>>

\* "if output_xml: save_xml_to_file(...)", then processed += 1 and the loop
\* goes on with the next file.
\* save_xml_to_file re-raises the error of a failed write; the file is then
\* counted as an error.
SaveXmlFile ==
    /\ pc = "save_xml"
    /\ \E writeRaises \in MayRaise(output_xml) :
           IF writeRaises
           THEN Except("OSError") /\ UNCHANGED xml_files
           ELSE /\ xml_files' =
                       IF output_xml
                       THEN xml_files \cup {[file |-> file_idx,
                                              xml |-> xml_content.xml]}
                       ELSE xml_files
                /\ processed' = processed + 1
                /\ log' = Append(log, "ok")
                /\ file_idx' = file_idx + 1
                /\ pc' = "parse_file"
                /\ UNCHANGED errors
    /\ UNCHANGED <<parameters, param_idx, db_parameters, db_documents,
                   normVars, parseVars, workerVars, xmlVars, runVars>>

\* The loop is over: the totals are printed and the session is closed.
Finish ==
    /\ pc = "parse_file"
    /\ file_idx > Len(txt_files)
    /\ pc' = "done"
    /\ UNCHANGED <<normVars, parseVars, workerVars, xmlVars, runVars, loopVars,
                   storeVars>>

Next ==
    \/ NoFiles
    \/ StartLoop
    \/ ParseFile
    \/ TranslateParam
    \/ CreateXmlDocument
    \/ SaveDocument
    \/ SaveXmlFile
    \/ Finish

Spec == Init /\ [][Next]_vars

UnknownStrategy ==
    \/ translation_strategy \notin {"translit", "llm"}
    \/ splitting_strategy \notin {"none", "llm"}

\* C10: with an unknown translation or splitting strategy every document
\* fails, one without parameters included, and no parameter record,
\* document record or XML file is produced.
C10_UnknownStrategyFailsEveryDocument ==
    UnknownStrategy =>
        /\ processed = 0
        /\ \A i \in 1..Len(log) : log[i] # "ok"
        /\ db_parameters = <<>>
        /\ db_documents = <<>>
        /\ xml_files = {}

\* The number of files the log reports as processed.
CountOk == Cardinality({i \in 1..Len(log) : log[i] = "ok"})

\* C11: every file is counted exactly once, as processed or as an error, a
\* file that raises does not stop the loop, and when the loop ends
\* processed + errors is the number of .txt files found.
C11_SkipAndContinue ==
    /\ processed + errors = Len(log)
    /\ processed = CountOk
    /\ pc \in {"translate", "save_document", "save_xml"} =>
           file_idx = Len(log) + 1 /\ file_idx <= Len(txt_files)
    /\ pc = "done" =>
           /\ Len(log) = Len(txt_files)
           /\ processed + errors = Len(txt_files)

\* C11 witness: the loop has ended, the first file raised and the second
\* file was still processed.
C11_Witness ==
    /\ pc = "done"
    /\ Len(txt_files) = 2
    /\ log[1] # "ok"
    /\ log[2] = "ok"
    /\ processed = 1 /\ errors = 1

\* The Document rows saved for the file at index i of txt_files.
DocumentsOf(i) ==
    {k \in 1..Len(db_documents) : db_documents[k].original_filename = i}

\* What the loop body computes for a file with text t under translation
\* strategy s: the labels parse_txt_file returns, their translations, and
\* the result of create_xml_document when the file got that far.
ExpectedOf(t, s) ==
    LET r      == parse_txt_file(t)
        labels == IF r.status = "ok" THEN r.parameters ELSE <<>>
        tr     == [j \in 1..Len(labels) |-> translate_with_strategy(labels[j], s)]
    IN  [labels  |-> labels,
         english |-> tr,
         xml     |-> IF r.status = "ok" /\ \A j \in 1..Len(tr) : tr[j].status = "ok"
                     THEN create_xml_document(r.document_name,
                                              [j \in 1..Len(tr) |-> tr[j].value])
                     ELSE [status |-> "error", error |-> "NotReached"]]

Expected == [t \in FileTexts, s \in TranslationStrategies |-> ExpectedOf(t, s)]

\* File i got past "xml_content = create_xml_document(...)": it is the
\* current file after save_document, or it ended as processed or with the
\* error of the XML file write.
PastXmlCreation(i) ==
    \/ i = file_idx /\ pc = "save_xml"
    \/ i <= Len(log) /\ log[i] \in {"ok", "OSError"}

\* A Document record exists only with a database and only for a file whose
\* XML creation succeeded; it holds that XML, and a file has at most one.
DocumentOnlyAfterXmlCreation ==
    \A k \in 1..Len(db_documents) :
        LET i == db_documents[k].original_filename
            e == Expected[txt_files[i], translation_strategy]
        IN  /\ use_db
            /\ PastXmlCreation(i)
            /\ e.xml.status = "ok"
            /\ db_documents[k].xml_content = e.xml.xml
            /\ Cardinality(DocumentsOf(i)) = 1

\* The Parameter records of the labels of a file that reached XML creation
\* exist, whether XML creation then failed or not, and stay: every label
\* has a record with its name ignoring case, and a record with exactly its
\* name carries its translation.
CommittedParametersRemain ==
    \A i \in 1..Len(log) :
        (use_db /\ log[i] \in {"ok", "OSError", "ExpatError"}) =>
            LET e == Expected[txt_files[i], translation_strategy]
            IN  \A j \in 1..Len(e.labels) :
                    /\ MatchesIgnoringCase(db_parameters, e.labels[j])
                    /\ \A k \in 1..Len(db_parameters) :
                           db_parameters[k].russian_name = e.labels[j] =>
                               db_parameters[k].english_name = e.english[j].value

MaxWorkers == 2
Workers == 1..MaxWorkers

\* russian_name arguments: two that are equal ignoring case, one other
WorkerNames == {<<"a">>, <<"A">>, <<"b">>}

ParameterRow(russian_name) ==
    [russian_name |-> russian_name,
     english_name |-> translate_with_strategy(russian_name, "translit").value]

\* "russian_name = Column(String(255), unique=True, ...)": the unique index
\* is on the column as stored, so it compares names exactly.
ViolatesUnique(rows, russian_name) ==
    \E i \in 1..Len(rows) : rows[i].russian_name = russian_name

ConcInit ==
    /\ pc = "workers"
    /\ NormIdle /\ ParseIdle /\ XmlIdle
    /\ translation_strategy = "translit" /\ splitting_strategy = "none"
    /\ use_db = TRUE /\ output_xml = FALSE /\ txt_files = <<>>
    /\ file_idx = 0 /\ parameters = <<>> /\ param_idx = 0
    /\ processed = 0 /\ errors = 0 /\ log = <<>>
    /\ db_documents = <<>> /\ xml_files = {}
    /\ \E rows \in {<<>>} \cup {<<ParameterRow(n)>> : n \in WorkerNames} :
           db_parameters = rows
    /\ w_name \in [Workers -> WorkerNames]
    /\ w_pc = [w \in Workers |-> "query"]

\* "parameter = session.query(Parameter).filter(...).first()" and
\* "if not parameter:": the worker reads the committed rows.
Query(w) ==
    /\ pc = "workers"
    /\ w_pc[w] = "query"
    /\ w_pc' = [w_pc EXCEPT ![w] =
                   IF MatchesIgnoringCase(db_parameters, w_name[w])
                   THEN "returned" ELSE "insert"]
    /\ UNCHANGED <<pc, normVars, parseVars, xmlVars, runVars, loopVars,
                   storeVars, w_name>>

\* "session.add(parameter); session.commit()": the INSERT raises
\* IntegrityError when the unique index on russian_name is violated.
Commit(w) ==
    /\ pc = "workers"
    /\ w_pc[w] = "insert"
    /\ IF ViolatesUnique(db_parameters, w_name[w])
       THEN /\ w_pc' = [w_pc EXCEPT ![w] = "IntegrityError"]
            /\ UNCHANGED db_parameters
       ELSE /\ w_pc' = [w_pc EXCEPT ![w] = "returned"]
            /\ db_parameters' = Append(db_parameters, ParameterRow(w_name[w]))
    /\ UNCHANGED <<pc, normVars, parseVars, xmlVars, runVars, loopVars,
                   db_documents, xml_files, w_name>>

ConcNext == \E w \in Workers : Query(w) \/ Commit(w)

ConcSpec == ConcInit /\ [][ConcNext]_vars

CallEnded(w) == w_pc[w] \in {"returned", "IntegrityError"}

RecordsFor(russian_name) ==
    {i \in 1..Len(db_parameters) :
        Lower(db_parameters[i].russian_name) = Lower(russian_name)}

\* C12: when two workers have both finished get_or_create_parameter for
\* names that are equal ignoring case, neither call has failed and exactly
\* one parameter record exists for that name.
C12_ConcurrentGetOrCreateSafe ==
    \A v, w \in Workers :
        (/\ v # w
         /\ CallEnded(v) /\ CallEnded(w)
         /\ Lower(w_name[v]) = Lower(w_name[w]))
        => /\ w_pc[v] = "returned"
           /\ w_pc[w] = "returned"
           /\ Cardinality(RecordsFor(w_name[w])) = 1

=============================================================================
